---- MODULE Spec2Model ----
(***************************************************************************)
(* State-machine model of src/core/emu.cpp (firebird emulator core):       *)
(* emu_suspend / emu_start / emu_cleanup (snapshot life cycle, Spec) and   *)
(* emu_loop / error / throttle_interval_event (execution loop, SpecLoop).  *)
(* SpecRun is the loop without exit requests, weakly fair on its           *)
(* statements; SpecThrottle is the throttle callback alone, firing after   *)
(* firing, on a host faster than the emulated machine.                     *)
(* Calls into other translation units (flash_*, cpu_*, memory_*, sched_*,  *)
(* gdbstub_*, ...) are modelled at their call site: their boolean result   *)
(* is an input, their effect is the one the call site relies on.           *)
(***************************************************************************)
EXTENDS Integers, Sequences, FiniteSets, TLC

\* ------------------------------------------------------------ constants

\* snapshot->sig = 0xCAFEBEEF, as its two 16-bit halves <<0xCAFE, 0xBEEF>>
MAGIC == <<51966, 48879>>
\* a 32-bit word of zero bytes
ZeroWord == <<0, 0>>
\* the magic with one byte flipped (0xCAFEBEEE)
FlippedMagic == <<51966, 48878>>
\* arm.control = 0x00050078
CONTROL_RESET == 327800
\* MODE_SVC (ARM supervisor mode number, 0x13)
MODE_SVC == 19
\* the 0xC0 of arm.cpsr_low28 = MODE_SVC | 0xC0 (IRQ and FIQ disabled)
CPSR_IF == 192
\* the Thumb bit tested by arm.cpsr_low28 & 0x20
CPSR_T == 32
\* event_repeat(index, 27000000 / 100)
THROTTLE_TICKS == 270000
\* sizeof(emu_snapshot), in abstract size units
HeaderSize == 2
\* if (time >= 500000): the measuring window, in microseconds
Window == 500000
\* the 10000 of speed = (double)10000 * (intervals - prev_intervals) / time:
\* microseconds of emulated time per throttle interval
IntervalMicros == 10000

\* ------------------------------------------------------------ bounds

\* largest value of flash_suspend_flexsize(), in abstract size units
MaxFlex == 1
\* largest word stored in working RAM
MaxRam == 1
\* most negative value of cycle_count_delta the executor leaves behind
MaxBudget == 2
\* number of front-end calls (emu_start, emu_suspend, emu_cleanup) in one behaviour
MaxCalls == 2
\* CPU cycles in one throttle interval (1/100 s of the 27 MHz clock)
CyclesPerInterval == 2

NULL == "NULL"

VARIABLES
    \* process-wide configuration (emu.cpp:29-32)
    path_boot1, path_flash, debug_on_start,
    \* machine state
    arm, cpu_events, cycle_count_delta, sched, mem, flash, settings,
    exiting, debugger_input, runtime,
    \* the file at the snapshot path
    file,
    \* control: position of the emulator thread, current function, its
    \* locals (fd, mapping, arguments), its result, the calls it has made
    pc, fn, loc, ret, calls,
    \* number of calls the front end has made
    ncalls,
    \* machine state at the moment of the last emu_suspend that wrote a complete
    \* image (valid: with both path strings set, so without undefined behaviour)
    suspended,
    \* machine state at the entry of the current call
    before,
    \* the checkpoint buffer of emu_loop: "unset", "set", or "stale" once the
    \* emu_loop that filled it has returned
    restart_after_exception,
    \* error() has run and no reset has been performed since
    faulted,
    \* what caused the last reset of emu_loop ("requested" by the caller, the
    \* pending-reset "event", a "fault"), "none" once an instruction has been
    \* dispatched since
    lastReset,
    \* an exit was requested and emu_loop has not returned since
    exitRequested,
    \* process-wide configuration read by warn and throttle_interval_event
    debug_on_warn, turbo_mode,
    \* the statics of throttle_interval_event: intervals - prev_intervals, the
    \* wall-clock microseconds between prev and the last firing, speed
    throttle,
    \* ticks of the 27 MHz clock until the throttle slot fires
    slot_ticks,
    \* the last firing of throttle_interval_event: the turbo flag it read and
    \* whether it called throttle_timer_wait
    fire,
    \* what warn or error has done since the last inner-loop check
    steps,
    \* the current iteration of emu_loop: scheduler runs in this outer iteration,
    \* what the last inner-loop check saw, executor calls in this inner iteration,
    \* the interrupt entry of this inner iteration
    iter

vars == <<path_boot1, path_flash, debug_on_start, arm, cpu_events,
          cycle_count_delta, sched, mem, flash, settings, exiting,
          debugger_input, runtime, file, pc, fn, loc, ret, calls,
          ncalls, suspended, before, restart_after_exception, faulted, lastReset,
          exitRequested, debug_on_warn, turbo_mode, throttle, slot_ticks, fire,
          steps, iter>>

\* the throttle controller's state
throttleVars == <<turbo_mode, throttle, slot_ticks, fire>>

\* the records kept of the execution loop's steps
iterVars == <<steps, iter>>

\* the state of the execution loop, which no snapshot call touches
loopVars == <<restart_after_exception, faulted, lastReset, exitRequested,
              debug_on_warn, throttleVars, iterVars>>

\* unchanged by every snapshot call
cfgVars == <<path_boot1, path_flash, debug_on_start, loopVars>>

\* unchanged inside a snapshot call
inCall == <<cfgVars, ncalls>>

\* ------------------------------------------------------------ values

EventBits == {"RESET", "IRQ", "FIQ", "WAITING", "DEBUG_STEP"}

\* memset(&arm, 0, sizeof arm) / zero-initialised global
ZeroArm == [reg15 |-> 0, control |-> 0, cpsr_low28 |-> 0]

\* emu_loop's reset: memset, then control and cpsr_low28
PowerOnArm == [reg15 |-> 0, control |-> CONTROL_RESET, cpsr_low28 |-> MODE_SVC + CPSR_IF]

\* a CPU that has executed for a while
RunningArm == [reg15 |-> 8, control |-> CONTROL_RESET, cpsr_low28 |-> MODE_SVC]

\* sched.items[SCHED_THROTTLE].clock / .proc and the set of armed slots
ZeroSched == [armed |-> {}, clock |-> "none", proc |-> "none"]

ThrottleSlot(s) == [s EXCEPT !.clock = "CLOCK_27M", !.proc = "throttle_interval_event"]

\* mem_areas[0] (boot ROM), mem_areas[1] (working RAM), RAM_FLAGS of the ROM
NoMem == [alloc |-> FALSE, rom |-> "none", ram |-> 0, ro |-> FALSE]

ClosedFlash == [open |-> FALSE, data |-> 0]

\* uint32_t product = 0x0E0, asic_user_flags = 0
DefaultSettings == [product |-> 224, asic_user_flags |-> 0]

\* what flash_read_settings reads out of the storage image
FlashSettings(f) == [product |-> 224 + f.data, asic_user_flags |-> f.data]

AllRuntime == {"translate", "addr_cache", "throttle_timer", "gdbstub", "rdebug"}

NoLoc == [fd |-> "none", map |-> "none", size |-> 0, snapshot_file |-> NULL,
          port_gdb |-> 0, port_rdbg |-> 0, closes |-> 0, unmaps |-> 0]

\* ------------------------------------------------------------ snapshot file

ZeroHdr == [product |-> 0, asic_user_flags |-> 0, path_boot1 |-> "", path_flash |-> ""]

\* a file just created by open(O_CREAT): no bytes
EmptyFile == [exists |-> TRUE, size |-> 0, sig |-> ZeroWord, hdr |-> ZeroHdr, flash |-> 0,
              cpu |-> ZeroArm, sched |-> {}, mem |-> [rom |-> "zero", ram |-> 0]]

NoFile == [EmptyFile EXCEPT !.exists = FALSE]

\* a complete image left at the path by an earlier emu_suspend
OldSnapshot == [exists |-> TRUE, size |-> HeaderSize, sig |-> MAGIC,
                hdr |-> [product |-> 224, asic_user_flags |-> 0,
                         path_boot1 |-> "boot1", path_flash |-> "flash"],
                flash |-> 0, cpu |-> RunningArm,
                sched |-> {"THROTTLE"},
                mem |-> [rom |-> "boot1", ram |-> MaxRam]]

\* what may lie at the snapshot path before the first call: nothing, a complete
\* image, one with a flipped signature byte, one cut below the header size, one
\* whose size disagrees with its regions
InitFiles == {NoFile,
              OldSnapshot,
              [OldSnapshot EXCEPT !.sig = FlippedMagic],
              [OldSnapshot EXCEPT !.size = HeaderSize - 1],
              [OldSnapshot EXCEPT !.size = HeaderSize + 1]}

\* size_t size = sizeof(emu_snapshot) + flash_suspend_flexsize()
SuspendSize == HeaderSize + flash.data

\* the size a complete image with these regions has
ImageSize(f) == HeaderSize + f.flash

machineVars == <<arm, cpu_events, cycle_count_delta, sched, mem, flash, settings,
                 exiting, debugger_input, runtime>>

\* the emulator state a caller can observe after a call
Observable == [cpu_events |-> cpu_events, sched |-> sched, exiting |-> exiting,
               mem |-> mem, flash |-> flash, debugger_input |-> debugger_input]

Call(name, ok) == [f |-> name, ok |-> ok]

Called(name) == \E i \in 1..Len(calls) : calls[i].f = name

Failed(name) == \E i \in 1..Len(calls) : calls[i].f = name /\ ~calls[i].ok

\* close(fp)
CloseFd(l) == [l EXCEPT !.fd = "closed", !.closes = @ + 1]

\* munmap(snapshot, size)
Unmap(l) == [l EXCEPT !.map = "unmapped", !.unmaps = @ + 1]

NoSuspend == [valid |-> FALSE, arm |-> ZeroArm, armed |-> {}, rom |-> "none", ram |-> 0]

\* ------------------------------------------------------------ emu_suspend

\* int fp = open(file, O_RDWR | O_CREAT, 0620); if(fp == -1) return false;
\* (the front end suspends a machine that has been started)
emu_suspend_open ==
    /\ pc = "idle"
    /\ mem.alloc /\ flash.open
    /\ ncalls < MaxCalls
    /\ ncalls' = ncalls + 1
    /\ fn' = "emu_suspend"
    /\ calls' = <<>>
    /\ before' = Observable
    /\ \E ok \in BOOLEAN :
         IF ok
         THEN /\ file' = IF file.exists THEN file ELSE EmptyFile
              /\ loc' = [NoLoc EXCEPT !.fd = "open", !.snapshot_file = "snapshot"]
              /\ ret' = "none"
              /\ pc' = "suspend_truncate"
              /\ suspended' = NoSuspend
         ELSE /\ loc' = [NoLoc EXCEPT !.snapshot_file = "snapshot"]
              /\ ret' = "false"
              /\ pc' = "idle"
              /\ UNCHANGED <<file, suspended>>
    /\ UNCHANGED <<cfgVars, machineVars>>

\* ftruncate keeps the bytes below the new size and zero-fills above the old one
Truncate(f, n) == [f EXCEPT !.size = n]

\* if(ftruncate(fp, size)) { close(fp); return false; }
emu_suspend_truncate ==
    /\ pc = "suspend_truncate"
    /\ \E ok \in BOOLEAN :
         IF ok
         THEN /\ file' = Truncate(file, SuspendSize)
              /\ loc' = [loc EXCEPT !.size = SuspendSize]
              /\ pc' = "suspend_mmap"
              /\ UNCHANGED ret
         ELSE /\ loc' = CloseFd(loc)
              /\ ret' = "false"
              /\ pc' = "idle"
              /\ UNCHANGED file
    /\ UNCHANGED <<inCall, machineVars, fn, calls, suspended, before>>

\* snapshot = mmap(..., MAP_SHARED, fp, 0); if(snapshot == -1) { close(fp); return false; }
emu_suspend_mmap ==
    /\ pc = "suspend_mmap"
    /\ \E ok \in BOOLEAN :
         IF ok
         THEN /\ loc' = [loc EXCEPT !.map = "mapped"]
              /\ pc' = "suspend_header"
              /\ UNCHANGED ret
         ELSE /\ loc' = CloseFd(loc)
              /\ ret' = "false"
              /\ pc' = "idle"
    /\ UNCHANGED <<inCall, machineVars, file, fn, calls, suspended, before>>

\* snapshot->product = product; snapshot->asic_user_flags = asic_user_flags;
\* strncpy(snapshot->path_boot1, path_boot1, ...); strncpy(snapshot->path_flash, path_flash, ...);
\* strncpy from a null path is undefined: the process dies or garbage is copied.
emu_suspend_header ==
    /\ pc = "suspend_header"
    /\ \/ /\ path_boot1 # NULL /\ path_flash # NULL
          /\ file' = [file EXCEPT !.hdr = [product |-> settings.product,
                                           asic_user_flags |-> settings.asic_user_flags,
                                           path_boot1 |-> path_boot1,
                                           path_flash |-> path_flash]]
          /\ pc' = "suspend_flash"
       \/ /\ path_boot1 = NULL \/ path_flash = NULL
          /\ file' = [file EXCEPT !.hdr = [product |-> settings.product,
                                           asic_user_flags |-> settings.asic_user_flags,
                                           path_boot1 |-> "garbage",
                                           path_flash |-> "garbage"]]
          /\ pc' = "suspend_flash"
       \/ /\ path_boot1 = NULL \/ path_flash = NULL
          /\ pc' = "crashed"
          /\ UNCHANGED file
    /\ UNCHANGED <<inCall, machineVars, fn, loc, ret, calls, suspended, before>>

\* if(!flash_suspend(snapshot) || ...
emu_suspend_flash ==
    /\ pc = "suspend_flash"
    /\ \E ok \in BOOLEAN :
         /\ calls' = Append(calls, Call("flash_suspend", ok))
         /\ file' = IF ok THEN [file EXCEPT !.flash = flash.data] ELSE file
         /\ pc' = IF ok THEN "suspend_cpu" ELSE "suspend_fail"
    /\ UNCHANGED <<inCall, machineVars, fn, loc, ret, suspended, before>>

\* ... || !cpu_suspend(snapshot) || ...
emu_suspend_cpu ==
    /\ pc = "suspend_cpu"
    /\ \E ok \in BOOLEAN :
         /\ calls' = Append(calls, Call("cpu_suspend", ok))
         /\ file' = IF ok THEN [file EXCEPT !.cpu = arm] ELSE file
         /\ pc' = IF ok THEN "suspend_sched" ELSE "suspend_fail"
    /\ UNCHANGED <<inCall, machineVars, fn, loc, ret, suspended, before>>

\* ... || !sched_suspend(snapshot) || ...
emu_suspend_sched ==
    /\ pc = "suspend_sched"
    /\ \E ok \in BOOLEAN :
         /\ calls' = Append(calls, Call("sched_suspend", ok))
         /\ file' = IF ok THEN [file EXCEPT !.sched = sched.armed] ELSE file
         /\ pc' = IF ok THEN "suspend_memory" ELSE "suspend_fail"
    /\ UNCHANGED <<inCall, machineVars, fn, loc, ret, suspended, before>>

\* ... || !memory_suspend(snapshot))
emu_suspend_memory ==
    /\ pc = "suspend_memory"
    /\ \E ok \in BOOLEAN :
         /\ calls' = Append(calls, Call("memory_suspend", ok))
         /\ file' = IF ok THEN [file EXCEPT !.mem = [rom |-> mem.rom, ram |-> mem.ram]]
                          ELSE file
         /\ pc' = IF ok THEN "suspend_sig" ELSE "suspend_fail"
    /\ UNCHANGED <<inCall, machineVars, fn, loc, ret, suspended, before>>

\* { munmap(snapshot, size); close(fp); }   the block holds no return:
\* control falls through to snapshot->sig = 0xCAFEBEEF
emu_suspend_fail ==
    /\ pc = "suspend_fail"
    /\ loc' = CloseFd(Unmap(loc))
    /\ pc' = "suspend_sig"
    /\ UNCHANGED <<inCall, machineVars, file, fn, ret, calls, suspended, before>>

\* snapshot->sig = 0xCAFEBEEF;  through a live mapping the store reaches the file;
\* through an unmapped one it is undefined: the process dies (SIGSEGV) or the
\* store lands outside the file.
emu_suspend_sig ==
    /\ pc = "suspend_sig"
    /\ calls' = Append(calls, Call("store_sig", loc.map = "mapped"))
    /\ \/ /\ loc.map = "mapped"
          /\ file' = [file EXCEPT !.sig = MAGIC]
          /\ suspended' = [valid |-> (path_boot1 # NULL /\ path_flash # NULL),
                           arm |-> arm, armed |-> sched.armed,
                           rom |-> mem.rom, ram |-> mem.ram]
          /\ pc' = "suspend_finish"
       \/ /\ loc.map # "mapped"
          /\ pc' = "suspend_finish"
          /\ UNCHANGED <<file, suspended>>
       \/ /\ loc.map # "mapped"
          /\ pc' = "crashed"
          /\ UNCHANGED <<file, suspended>>
    /\ UNCHANGED <<inCall, machineVars, fn, loc, ret, before>>

\* munmap(snapshot, size); close(fp); return true;
emu_suspend_finish ==
    /\ pc = "suspend_finish"
    /\ loc' = CloseFd(Unmap(loc))
    /\ ret' = "true"
    /\ pc' = "idle"
    /\ UNCHANGED <<inCall, machineVars, file, fn, calls, suspended, before>>

\* ------------------------------------------------------------ emu_cleanup

\* fclose(debugger_input) on a stream an earlier emu_cleanup closed (the pointer
\* is never reset) is undefined: the process may die there
CleanupMayCrash == debugger_input = "closed"

CleanupOutcomes == IF CleanupMayCrash THEN {"returns", "crashes"} ELSE {"returns"}

\* the body of emu_cleanup: exiting = true; if(debugger_input) fclose(debugger_input);
\* translate_deinit(); memory_reset(); memory_deinitialize(); flash_close();
\* gdbstub_quit(); rdebug_quit();
emu_cleanup_body(outcome) ==
    /\ exiting' = TRUE
    /\ debugger_input' = IF debugger_input = "null" THEN "null" ELSE "closed"
    /\ IF outcome = "crashes"
       THEN UNCHANGED <<runtime, mem, flash>>
       ELSE /\ runtime' = runtime \ {"translate", "gdbstub", "rdebug"}
            /\ mem' = NoMem
            /\ flash' = ClosedFlash

\* the calls emu_cleanup adds to the record of the current call
CleanupCalls == <<Call("emu_cleanup", TRUE)>>
                \o (IF debugger_input = "null" THEN <<>>
                    ELSE <<Call("fclose", debugger_input = "open")>>)

\* emu_cleanup() called by the front end
emu_cleanup ==
    /\ pc = "idle"
    /\ ncalls < MaxCalls
    /\ ncalls' = ncalls + 1
    /\ fn' = "emu_cleanup"
    /\ before' = Observable
    /\ loc' = NoLoc
    /\ ret' = "none"
    /\ calls' = CleanupCalls
    /\ \E outcome \in CleanupOutcomes :
         /\ emu_cleanup_body(outcome)
         /\ pc' = IF outcome = "crashes" THEN "crashed" ELSE "idle"
    /\ UNCHANGED <<cfgVars, arm, cpu_events, cycle_count_delta, sched, settings,
                   file, suspended>>

\* ------------------------------------------------------------ emu_start

\* the <<port_gdb, port_rdbg>> arguments tried: both listeners off, both on
PortChoices == {<<0, 0>>, <<1234, 1235>>}

startUnchanged == <<inCall, file, fn, suspended, before>>

\* if(debug_on_start) cpu_events |= EVENT_DEBUG_STEP; if(snapshot_file) ... else ...
emu_start_begin ==
    /\ pc = "idle"
    /\ ncalls < MaxCalls
    /\ ncalls' = ncalls + 1
    /\ fn' = "emu_start"
    /\ calls' = <<>>
    /\ before' = Observable
    /\ ret' = "none"
    /\ cpu_events' = IF debug_on_start THEN cpu_events \cup {"DEBUG_STEP"} ELSE cpu_events
    /\ \E snap \in {NULL, "snapshot"}, ports \in PortChoices :
         /\ loc' = [NoLoc EXCEPT !.snapshot_file = snap, !.port_gdb = ports[1],
                                 !.port_rdbg = ports[2]]
         /\ pc' = IF snap = NULL THEN "start_flash_open" ELSE "start_open"
    /\ UNCHANGED <<cfgVars, arm, cycle_count_delta, sched, mem, flash, settings,
                   exiting, debugger_input, runtime, file, suspended>>

\* int fp = open(snapshot_file, O_RDONLY); if(fp == -1) return false;
emu_start_open ==
    /\ pc = "start_open"
    /\ \E ok \in BOOLEAN :
         /\ ok => file.exists
         /\ loc' = IF ok THEN [loc EXCEPT !.fd = "open"] ELSE loc
         /\ ret' = IF ok THEN ret ELSE "false"
         /\ pc' = IF ok THEN "start_mmap" ELSE "idle"
    /\ UNCHANGED <<startUnchanged, machineVars, calls>>

\* size = lseek(fp, 0, SEEK_END); snapshot = mmap(NULL, size, PROT_READ, ...);
\* close(fp); if(snapshot == -1) return false;     (mmap of length 0 fails)
emu_start_mmap ==
    /\ pc = "start_mmap"
    /\ \E ok \in BOOLEAN :
         /\ ok => file.size > 0
         /\ loc' = CloseFd([loc EXCEPT !.size = file.size,
                                       !.map = IF ok THEN "mapped" ELSE "none"])
         /\ ret' = IF ok THEN ret ELSE "false"
         /\ pc' = IF ok THEN "start_sched" ELSE "idle"
    /\ UNCHANGED <<startUnchanged, machineVars, calls>>

\* sched.items[SCHED_THROTTLE].clock = CLOCK_27M; .proc = throttle_interval_event;
emu_start_sched ==
    /\ pc = "start_sched"
    /\ sched' = ThrottleSlot(sched)
    /\ pc' = "start_check_size"
    /\ UNCHANGED <<startUnchanged, arm, cpu_events, cycle_count_delta, mem, flash,
                   settings, exiting, debugger_input, runtime, loc, ret, calls>>

\* size < sizeof(emu_snapshot)
SizeTooSmall(size) == size < HeaderSize

\* if(size < sizeof(emu_snapshot) || ...
emu_start_check_size ==
    /\ pc = "start_check_size"
    /\ pc' = IF SizeTooSmall(loc.size) THEN "start_fail" ELSE "start_check_sig"
    /\ UNCHANGED <<startUnchanged, machineVars, loc, ret, calls>>

\* ... || snapshot->sig != 0xCAFEBEEF || ...
emu_start_check_sig ==
    /\ pc = "start_check_sig"
    /\ calls' = Append(calls, Call("read_sig", file.sig = MAGIC))
    /\ pc' = IF file.sig # MAGIC THEN "start_fail" ELSE "start_flash_resume"
    /\ UNCHANGED <<startUnchanged, machineVars, loc, ret>>

\* ... || !flash_resume(snapshot) || ...
emu_start_flash_resume ==
    /\ pc = "start_flash_resume"
    /\ \E ok \in BOOLEAN :
         /\ calls' = Append(calls, Call("flash_resume", ok))
         /\ flash' = IF ok THEN [open |-> TRUE, data |-> file.flash] ELSE flash
         /\ pc' = IF ok THEN "start_read_settings" ELSE "start_fail"
    /\ UNCHANGED <<startUnchanged, arm, cpu_events, cycle_count_delta, sched, mem,
                   settings, exiting, debugger_input, runtime, loc, ret>>

\* ... || !flash_read_settings(&sdram_size, &product, &asic_user_flags) || ...
emu_start_read_settings ==
    /\ pc = "start_read_settings"
    /\ \E ok \in BOOLEAN :
         /\ calls' = Append(calls, Call("flash_read_settings", ok))
         /\ settings' = IF ok THEN FlashSettings(flash) ELSE settings
         /\ pc' = IF ok THEN "start_cpu_resume" ELSE "start_fail"
    /\ UNCHANGED <<startUnchanged, arm, cpu_events, cycle_count_delta, sched, mem,
                   flash, exiting, debugger_input, runtime, loc, ret>>

\* ... || !cpu_resume(snapshot) || ...
emu_start_cpu_resume ==
    /\ pc = "start_cpu_resume"
    /\ \E ok \in BOOLEAN :
         /\ calls' = Append(calls, Call("cpu_resume", ok))
         /\ arm' = IF ok THEN file.cpu ELSE arm
         /\ pc' = IF ok THEN "start_memory_resume" ELSE "start_fail"
    /\ UNCHANGED <<startUnchanged, cpu_events, cycle_count_delta, sched, mem, flash,
                   settings, exiting, debugger_input, runtime, loc, ret>>

\* ... || !memory_resume(snapshot) || ...
emu_start_memory_resume ==
    /\ pc = "start_memory_resume"
    /\ \E ok \in BOOLEAN :
         /\ calls' = Append(calls, Call("memory_resume", ok))
         /\ mem' = IF ok THEN [alloc |-> TRUE, rom |-> file.mem.rom,
                               ram |-> file.mem.ram, ro |-> FALSE]
                         ELSE mem
         /\ pc' = IF ok THEN "start_sched_resume" ELSE "start_fail"
    /\ UNCHANGED <<startUnchanged, arm, cpu_events, cycle_count_delta, sched, flash,
                   settings, exiting, debugger_input, runtime, loc, ret>>

\* ... || !sched_resume(snapshot))
emu_start_sched_resume ==
    /\ pc = "start_sched_resume"
    /\ \E ok \in BOOLEAN :
         /\ calls' = Append(calls, Call("sched_resume", ok))
         /\ sched' = IF ok THEN [sched EXCEPT !.armed = file.sched] ELSE sched
         /\ pc' = IF ok THEN "start_unmap" ELSE "start_fail"
    /\ UNCHANGED <<startUnchanged, arm, cpu_events, cycle_count_delta, mem, flash,
                   settings, exiting, debugger_input, runtime, loc, ret>>

\* { emu_cleanup(); munmap(snapshot, size); return false; }
emu_start_fail ==
    /\ pc = "start_fail"
    /\ calls' = calls \o CleanupCalls
    /\ \E outcome \in CleanupOutcomes :
         /\ emu_cleanup_body(outcome)
         /\ IF outcome = "crashes"
            THEN /\ pc' = "crashed"
                 /\ UNCHANGED <<loc, ret>>
            ELSE /\ loc' = Unmap(loc)
                 /\ ret' = "false"
                 /\ pc' = "idle"
    /\ UNCHANGED <<startUnchanged, arm, cpu_events, cycle_count_delta, sched, settings>>

\* munmap(snapshot, size);   (end of the resume branch)
emu_start_unmap ==
    /\ pc = "start_unmap"
    /\ loc' = Unmap(loc)
    /\ pc' = "start_rom"
    /\ UNCHANGED <<startUnchanged, machineVars, ret, calls>>

\* if (!path_flash || !flash_open(path_flash)) return false;
emu_start_flash_open ==
    /\ pc = "start_flash_open"
    /\ \/ /\ path_flash = NULL
          /\ ret' = "false"
          /\ pc' = "idle"
          /\ UNCHANGED <<flash, calls>>
       \/ /\ path_flash # NULL
          /\ calls' = Append(calls, Call("flash_open", FALSE))
          /\ ret' = "false"
          /\ pc' = "idle"
          /\ UNCHANGED flash
       \/ /\ path_flash # NULL
          /\ calls' = Append(calls, Call("flash_open", TRUE))
          /\ \E d \in 0..MaxFlex : flash' = [open |-> TRUE, data |-> d]
          /\ pc' = "start_cold_settings"
          /\ UNCHANGED ret
    /\ UNCHANGED <<startUnchanged, arm, cpu_events, cycle_count_delta, sched, mem,
                   settings, exiting, debugger_input, runtime, loc>>

\* flash_read_settings(&sdram_size, &product, &asic_user_flags);   (result ignored)
\* flash_set_bootorder(boot_order);
emu_start_cold_settings ==
    /\ pc = "start_cold_settings"
    /\ \E ok \in BOOLEAN :
         /\ calls' = calls \o <<Call("flash_read_settings", ok),
                                Call("flash_set_bootorder", TRUE)>>
         /\ settings' = IF ok THEN FlashSettings(flash) ELSE settings
    /\ pc' = "start_memory_initialize"
    /\ UNCHANGED <<startUnchanged, arm, cpu_events, cycle_count_delta, sched, mem,
                   flash, exiting, debugger_input, runtime, loc, ret>>

\* if(!memory_initialize(sdram_size)) return false;
emu_start_memory_initialize ==
    /\ pc = "start_memory_initialize"
    /\ \E ok \in BOOLEAN :
         /\ calls' = Append(calls, Call("memory_initialize", ok))
         /\ mem' = IF ok THEN [alloc |-> TRUE, rom |-> "zero", ram |-> 0, ro |-> FALSE]
                         ELSE mem
         /\ ret' = IF ok THEN ret ELSE "false"
         /\ pc' = IF ok THEN "start_rom" ELSE "idle"
    /\ UNCHANGED <<startUnchanged, arm, cpu_events, cycle_count_delta, sched, flash,
                   settings, exiting, debugger_input, runtime, loc>>

\* the boot-ROM region after memset(rom, -1, 0x80000) and the RAM_FLAGS loop
RomInit(m) == [m EXCEPT !.rom = "erased", !.ro = TRUE]

\* uint8_t *rom = mem_areas[0].ptr; memset(rom, -1, 0x80000);
\* for (...) RAM_FLAGS(&rom[i]) = RF_READ_ONLY;
emu_start_rom ==
    /\ pc = "start_rom"
    /\ mem' = RomInit(mem)
    /\ pc' = "start_boot1"
    /\ UNCHANGED <<startUnchanged, arm, cpu_events, cycle_count_delta, sched, flash,
                   settings, exiting, debugger_input, runtime, loc, ret, calls>>

\* emu_start_boot1 without the return in "if (!f) { gui_perror(path_boot1); return false; }":
\* start-up goes on with the erased ROM
emu_start_boot1_NoReturn ==
    /\ pc = "start_boot1"
    /\ \/ /\ path_boot1 = NULL
          /\ UNCHANGED <<mem, calls>>
       \/ /\ path_boot1 # NULL
          /\ calls' = Append(calls, Call("fopen_boot1", FALSE))
          /\ UNCHANGED mem
       \/ /\ path_boot1 # NULL
          /\ calls' = Append(calls, Call("fopen_boot1", TRUE))
          /\ mem' = [mem EXCEPT !.rom = path_boot1]
    /\ pc' = "start_finish"
    /\ UNCHANGED <<startUnchanged, arm, cpu_events, cycle_count_delta, sched, flash,
                   settings, exiting, debugger_input, runtime, loc, ret>>

\* if (path_boot1) { f = fopen(path_boot1, "rb"); if (!f) { gui_perror; return false; }
\*                   fread(rom, 1, 0x80000, f); fclose(f); }
emu_start_boot1 ==
    /\ pc = "start_boot1"
    /\ \/ /\ path_boot1 = NULL
          /\ pc' = "start_finish"
          /\ UNCHANGED <<mem, ret, calls>>
       \/ /\ path_boot1 # NULL
          /\ calls' = Append(calls, Call("fopen_boot1", FALSE))
          /\ ret' = "false"
          /\ pc' = "idle"
          /\ UNCHANGED mem
       \/ /\ path_boot1 # NULL
          /\ calls' = Append(calls, Call("fopen_boot1", TRUE))
          /\ mem' = [mem EXCEPT !.rom = path_boot1]
          /\ pc' = "start_finish"
          /\ UNCHANGED ret
    /\ UNCHANGED <<startUnchanged, arm, cpu_events, cycle_count_delta, sched, flash,
                   settings, exiting, debugger_input, runtime, loc>>

\* translate_init(); addr_cache_init(&frame); throttle_timer_on();
\* if(port_gdb) gdbstub_init(port_gdb); if(port_rdbg) rdebug_bind(port_rdbg); return true;
emu_start_finish ==
    /\ pc = "start_finish"
    /\ runtime' = runtime \cup {"translate", "addr_cache", "throttle_timer"}
                          \cup (IF loc.port_gdb # 0 THEN {"gdbstub"} ELSE {})
                          \cup (IF loc.port_rdbg # 0 THEN {"rdebug"} ELSE {})
    /\ calls' = calls \o <<Call("translate_init", TRUE), Call("addr_cache_init", TRUE),
                           Call("throttle_timer_on", TRUE)>>
                      \o (IF loc.port_gdb # 0 THEN <<Call("gdbstub_init", TRUE)>> ELSE <<>>)
                      \o (IF loc.port_rdbg # 0 THEN <<Call("rdebug_bind", TRUE)>> ELSE <<>>)
    /\ ret' = "true"
    /\ pc' = "idle"
    /\ UNCHANGED <<startUnchanged, arm, cpu_events, cycle_count_delta, sched, mem,
                   flash, settings, exiting, debugger_input, loc>>

\* static double speed = 1.0, as the fraction num / den
InitialSpeed == [num |-> 1, den |-> 1]

\* static int intervals = 0, prev_intervals = 0; static auto prev = interval_end;
InitialThrottle == [since |-> 0, elapsed |-> 0, speed |-> InitialSpeed]

\* no firing of throttle_interval_event yet
NoFire == [fired |-> FALSE, turbo |-> FALSE, waited |-> FALSE]

\* no scheduler run, no inner-loop check, no executor call, no interrupt entry yet
NoCheck == [exiting |-> FALSE, delta |-> 0, reset |-> FALSE, made |-> FALSE]

NoIrq == [taken |-> FALSE, events |-> {}, reg15 |-> 0, thumb |-> FALSE, pc |-> 0,
          type |-> "none"]

NoIter == [advances |-> 0, check |-> NoCheck, execs |-> 0, executor |-> "none",
           thumb |-> FALSE, irq |-> NoIrq]

\* ------------------------------------------------------------ process

\* a new process: the globals of emu.cpp:19-32 at their initial values, the
\* configuration set by the front end before emu_start
ProcessStart ==
    /\ pc \in {"idle", "crashed"}
    /\ path_boot1' \in {NULL, "boot1"}
    /\ path_flash' \in {NULL, "flash"}
    /\ UNCHANGED debug_on_start
    /\ arm' = ZeroArm
    /\ cpu_events' = {}
    /\ cycle_count_delta' = 0
    /\ sched' = ZeroSched
    /\ mem' = NoMem
    /\ flash' = ClosedFlash
    /\ settings' = DefaultSettings
    /\ exiting' = FALSE
    /\ debugger_input' = "null"
    /\ runtime' = {}
    /\ pc' = "idle"
    /\ fn' = "none"
    /\ loc' = NoLoc
    /\ ret' = "none"
    /\ calls' = <<>>
    /\ before' = [cpu_events |-> {}, sched |-> ZeroSched, exiting |-> FALSE,
                  mem |-> NoMem, flash |-> ClosedFlash, debugger_input |-> "null"]
    /\ UNCHANGED <<file, suspended, ncalls, loopVars>>

\* a machine that was started and has run: the state in which the front end calls
\* emu_suspend, emu_cleanup or emu_start again. The boot ROM holds what emu_start
\* put there.
\* the machine states tried: one that has just been reset, one that has run
RunningMachines ==
    {[arm |-> PowerOnArm, ram |-> 0, flash |-> 0],
     [arm |-> RunningArm, ram |-> MaxRam, flash |-> MaxFlex]}

Init ==
    /\ path_boot1 \in {NULL, "boot1"}
    /\ path_flash = "flash"
    /\ debug_on_start \in BOOLEAN
    /\ \E m \in RunningMachines :
         /\ arm = m.arm
         /\ mem = [alloc |-> TRUE, rom |-> (IF path_boot1 = NULL THEN "erased" ELSE path_boot1),
                   ram |-> m.ram, ro |-> TRUE]
         /\ flash = [open |-> TRUE, data |-> m.flash]
    /\ cpu_events = {}
    /\ cycle_count_delta = 0
    /\ sched = ThrottleSlot([ZeroSched EXCEPT !.armed = {"THROTTLE", "TIMER"}])
    /\ settings = FlashSettings(flash)
    /\ exiting = FALSE
    /\ debugger_input \in {"null", "open"}
    /\ runtime = {"translate", "addr_cache", "throttle_timer"}
    /\ file \in InitFiles
    /\ pc = "idle"
    /\ fn = "none"
    /\ loc = NoLoc
    /\ ret = "none"
    /\ calls = <<>>
    /\ ncalls = 0
    /\ suspended = NoSuspend
    /\ before = Observable
    /\ restart_after_exception = "unset"
    /\ faulted = FALSE
    /\ lastReset = "none"
    /\ exitRequested = FALSE
    /\ debug_on_warn = FALSE
    /\ turbo_mode = FALSE
    /\ throttle = InitialThrottle
    /\ slot_ticks = THROTTLE_TICKS
    /\ fire = NoFire
    /\ steps = <<>>
    /\ iter = NoIter

Next ==
    \/ ProcessStart
    \/ emu_suspend_open \/ emu_suspend_truncate \/ emu_suspend_mmap
    \/ emu_suspend_header \/ emu_suspend_flash \/ emu_suspend_cpu
    \/ emu_suspend_sched \/ emu_suspend_memory \/ emu_suspend_fail
    \/ emu_suspend_sig \/ emu_suspend_finish
    \/ emu_cleanup
    \/ emu_start_begin \/ emu_start_open \/ emu_start_mmap \/ emu_start_sched
    \/ emu_start_check_size \/ emu_start_check_sig \/ emu_start_flash_resume
    \/ emu_start_read_settings \/ emu_start_cpu_resume \/ emu_start_memory_resume
    \/ emu_start_sched_resume \/ emu_start_fail \/ emu_start_unmap
    \/ emu_start_flash_open \/ emu_start_cold_settings \/ emu_start_memory_initialize
    \/ emu_start_rom \/ emu_start_boot1 \/ emu_start_finish

Spec == Init /\ [][Next]_vars

\* ------------------------------------------------------------ execution loop state

\* unchanged by the execution loop
snapVars == <<path_boot1, path_flash, debug_on_start, flash, settings,
              debugger_input, runtime, file, loc, ret, calls, ncalls, suspended, before>>

\* ------------------------------------------------------------ throttle_interval_event

\* event_repeat(index, ticks) of the scheduler: the slot fires again ticks later
event_repeat(remaining, ticks) == remaining + ticks

\* a firing that does not re-arm the slot
ThrottleRearm_Never(remaining) == remaining

\* event_repeat(index, 27000000 / 100);
ThrottleRearm(remaining) == event_repeat(remaining, THROTTLE_TICKS)

\* wall-clock microseconds between two firings on the host tried: half a second
\* (interval_end - prev of a host far slower than the emulated machine)
HostDts == {Window}

\* speed = (double)10000 * (intervals - prev_intervals) / time, as a fraction
Speed(n, time) == [num |-> IntervalMicros * n, den |-> time]

\* speed > 0.7
Fast(sp) == 10 * sp.num > 7 * sp.den

\* the delay decided by the measured speed alone
ShouldWait_IgnoreTurbo(turbo, sp) == Fast(sp)

\* if (!turbo_mode && speed > 0.7)
ShouldWait(turbo, sp) == ~turbo /\ Fast(sp)

\* intervals += 1; time = interval_end - prev; if (time >= 500000) { speed = ...;
\* prev_intervals = intervals; prev = interval_end; }
Measure(t, dt) ==
    LET n == t.since + 1
        time == t.elapsed + dt
    IN  IF time >= Window
        THEN [since |-> 0, elapsed |-> 0, speed |-> Speed(n, time)]
        ELSE [since |-> n, elapsed |-> time, speed |-> t.speed]

\* the slot has a callback and its time has come
ThrottleDue == sched.proc = "throttle_interval_event" /\ slot_ticks = 0

\* throttle_interval_event: event_repeat(index, 27000000 / 100);
throttle_interval_event_repeat ==
    /\ pc = "throttle_event"
    /\ slot_ticks' = ThrottleRearm(slot_ticks)
    /\ pc' = "throttle_poll"
    /\ UNCHANGED <<snapVars, arm, cpu_events, cycle_count_delta, sched, mem, exiting, fn,
                   restart_after_exception, faulted, lastReset, exitRequested,
                   debug_on_warn, turbo_mode, throttle, fire, iterVars>>

\* throttle_interval_event after event_repeat: intervals += 1; usblink_timer();
\* usblink_queue_do(); gui_getchar / serial_byte_in; gdbstub_recv(); rdebug_recv();
\* the speed measurement; gui_do_stuff(true);
\* if (!turbo_mode && speed > 0.7) throttle_timer_wait();
throttle_interval_event_poll ==
    /\ pc = "throttle_poll"
    /\ \E dt \in HostDts : throttle' = Measure(throttle, dt)
    /\ fire' = [fired |-> TRUE, turbo |-> turbo_mode,
                waited |-> ShouldWait(turbo_mode, throttle'.speed)]
    /\ pc' = "loop_sched_done"
    /\ UNCHANGED <<snapVars, arm, cpu_events, cycle_count_delta, sched, mem, exiting, fn,
                   restart_after_exception, faulted, lastReset, exitRequested,
                   debug_on_warn, turbo_mode, slot_ticks, iterVars>>

\* ------------------------------------------------------------ warn, error, emu_loop

\* error() without its cpu_events |= EVENT_RESET
ErrorEvents_NoReset(ev) == ev

\* cpu_events |= EVENT_RESET;   (error)
ErrorEvents(ev) == ev \cup {"RESET"}

\* a reset that clears the pending-reset bit only (cpu_events &= ~EVENT_RESET)
ResetEvents_KeepPending(ev) == ev \ {"RESET"}

\* cpu_events &= EVENT_DEBUG_STEP;   (emu_loop's reset)
ResetEvents(ev) == ev \cap {"DEBUG_STEP"}

\* cycle_count_delta as the scheduler publishes it: the (negative) time to the
\* next event
Budgets == (0 - MaxBudget)..(0 - 1)

\* ticks of the 27 MHz clock per CPU cycle
TicksPerCycle == THROTTLE_TICKS \div CyclesPerInterval

\* the slot's remaining ticks once the CPU has run for some cycles
Elapse(remaining, cycles) ==
    IF remaining > cycles * TicksPerCycle THEN remaining - cycles * TicksPerCycle ELSE 0

\* CPU cycles until the slot fires
CyclesUntil(remaining) == (remaining + TicksPerCycle - 1) \div TicksPerCycle

\* the budgets the scheduler may publish: the time to the next event of any
\* slot, at most the time to the throttle event when that slot is registered
NextBudgets ==
    IF sched.proc = "throttle_interval_event"
    THEN {d \in Budgets : 0 - d <= CyclesUntil(slot_ticks)}
    ELSE Budgets

\* program counters the executor may leave behind: aligned and not
ExecutorPCs == {0, 6, 7}

\* status words the executor may leave behind: supervisor mode with interrupts
\* masked, with interrupts enabled, in Thumb state
ExecutorCPSRs == {MODE_SVC + CPSR_IF, MODE_SVC, MODE_SVC + CPSR_T}

\* event bits raised while an instruction executes (by the devices it touches)
ExecutorEvents == {{}, {"IRQ"}, {"FIQ", "IRQ"}, {"IRQ", "WAITING"}, {"RESET"}}

\* arm.cpsr_low28 & 0x20
Thumb(a) == (a.cpsr_low28 \div CPSR_T) % 2 = 1

\* an alignment that clears the low two bits in either state
AlignPC_AlwaysWord(a) == a.reg15 - (a.reg15 % 4)

\* arm.reg[15] &= ~1 in Thumb state, arm.reg[15] &= ~3 otherwise
AlignPC(a) == IF Thumb(a) THEN a.reg15 - (a.reg15 % 2) ELSE a.reg15 - (a.reg15 % 4)

\* the program counter handed to cpu_exception: aligned, 4 more if the CPU was
\* waiting for the interrupt, 4 more
InterruptPC(a, ev) == AlignPC(a) + (IF "WAITING" \in ev THEN 4 ELSE 0) + 4

\* (cpu_events & EVENT_FIQ) ? EX_FIQ : EX_IRQ
ExceptionType(ev) == IF "FIQ" \in ev THEN "EX_FIQ" ELSE "EX_IRQ"

\* cpu_exception(type): exception entry of the ARM core: the mode of the
\* exception, ARM state, IRQ masked (FIQ also on FIQ entry), the vector address
cpu_exception(a, type) ==
    [a EXCEPT !.reg15 = IF type = "EX_FIQ" THEN 28 ELSE 24,
              !.cpsr_low28 = IF type = "EX_FIQ" THEN 17 + CPSR_IF ELSE 18 + 128]

\* the events still pending once the exception entry has masked its interrupt
EventsAfterException(ev, type) ==
    IF type = "EX_FIQ" THEN ev \ {"FIQ", "IRQ"} ELSE ev \ {"IRQ"}

\* an inner loop that goes on while the budget lasts, whatever exiting says
InnerLoopRuns_IgnoreExit(ex, delta) == delta < 0

\* while (!exiting && cycle_count_delta < 0)
InnerLoopRuns(ex, delta) == ~ex /\ delta < 0

\* if (arm.cpsr_low28 & 0x20) cpu_thumb_loop(); else cpu_arm_loop();
Executor(a) == IF Thumb(a) THEN "cpu_thumb_loop" ELSE "cpu_arm_loop"

\* warn(): gui_debug_printf of the warning, then if (debug_on_warn) debugger(...)
WarnSteps(policy) == <<"report">> \o (IF policy THEN <<"debugger">> ELSE <<>>)

\* error(): gui_debug_printf of the error, debugger(DBG_EXCEPTION, 0),
\* cpu_events |= EVENT_RESET, __builtin_longjmp(restart_after_exception, 1)
ErrorSteps == <<"report", "debugger", "set_reset", "longjmp">>

\* where a fault may be raised: inside a scheduler callback (before or inside
\* the throttle event) or inside the executor, all after the checkpoint is set
FaultSites == {"loop_sched", "throttle_poll", "loop_dispatch"}

\* error(fmt, ...): report, debugger(DBG_EXCEPTION, 0), cpu_events |= EVENT_RESET,
\* __builtin_longjmp(restart_after_exception, 1): control lands after the
\* __builtin_setjmp of emu_loop, at while (!exiting)
error ==
    /\ pc \in FaultSites
    /\ restart_after_exception = "set"
    /\ cpu_events' = ErrorEvents(cpu_events)
    /\ steps' = ErrorSteps
    /\ faulted' = TRUE
    /\ lastReset' = IF pc = "loop_dispatch" THEN "none" ELSE lastReset
    /\ pc' = "loop_outer"
    /\ UNCHANGED <<snapVars, arm, cycle_count_delta, sched, mem, exiting, fn,
                   restart_after_exception, exitRequested, debug_on_warn,
                   throttleVars, iter>>

\* warn(fmt, ...), called by the executor (exec_hack): report, and
\* if (debug_on_warn) debugger(DBG_EXCEPTION, 0); execution continues
warn ==
    /\ pc = "loop_dispatch"
    /\ steps = <<>>
    /\ steps' = WarnSteps(debug_on_warn)
    /\ UNCHANGED <<snapVars, arm, cpu_events, cycle_count_delta, sched, mem, exiting,
                   pc, fn, restart_after_exception, faulted, lastReset, exitRequested,
                   debug_on_warn, throttleVars, iter>>

\* the front end's asynchronous exit request: exiting = true
RequestExit ==
    /\ ~exitRequested
    /\ exiting' = TRUE
    /\ exitRequested' = TRUE
    /\ UNCHANGED <<snapVars, arm, cpu_events, cycle_count_delta, sched, mem, pc, fn,
                   restart_after_exception, faulted, lastReset, debug_on_warn,
                   throttleVars, iterVars>>

\* void emu_loop(bool reset) { if(reset) { ...
\* (the front end asks for the reset when the machine was cold-booted: only a
\* resumed machine has its throttle slot registered by emu_start)
emu_loop_entry ==
    /\ pc = "idle"
    /\ fn' = "emu_loop"
    /\ \E reset \in (IF sched.proc = "none" THEN {TRUE} ELSE BOOLEAN) :
         pc' = IF reset THEN "loop_reset" ELSE "loop_prepare"
    /\ UNCHANGED <<snapVars, arm, cpu_events, cycle_count_delta, sched, mem, exiting,
                   loopVars>>

\* sched_reset() clears the slots: a slot given a callback afterwards fires at
\* the next sched_process_pending_events
ResetTicks == 0

\* reset: memset(mem_areas[1].ptr, 0, ...); memset(&arm, 0, sizeof arm);
\* arm.control = 0x00050078; arm.cpsr_low28 = MODE_SVC | 0xC0;
\* cpu_events &= EVENT_DEBUG_STEP; sched_reset(); throttle slot clock and proc;
\* memory_reset();
emu_loop_reset ==
    /\ pc = "loop_reset"
    /\ mem' = [mem EXCEPT !.ram = 0]
    /\ arm' = PowerOnArm
    /\ cpu_events' = ResetEvents(cpu_events)
    /\ sched' = ThrottleSlot(ZeroSched)
    /\ slot_ticks' = ResetTicks
    /\ faulted' = FALSE
    /\ lastReset' = IF faulted THEN "fault"
                    ELSE IF "RESET" \in cpu_events THEN "event" ELSE "requested"
    /\ pc' = "loop_prepare"
    /\ UNCHANGED <<snapVars, cycle_count_delta, exiting, fn, restart_after_exception,
                   exitRequested, debug_on_warn, turbo_mode, throttle, fire, iterVars>>

\* gdbstub_reset(); addr_cache_flush(); flush_translations();
\* sched_update_next_event(0); exiting = false;
emu_loop_prepare ==
    /\ pc = "loop_prepare"
    /\ cycle_count_delta' \in Budgets
    /\ exiting' = FALSE
    /\ pc' = "loop_setjmp"
    /\ UNCHANGED <<snapVars, arm, cpu_events, sched, mem, fn, loopVars>>

\* __builtin_setjmp(restart_after_exception);
emu_loop_setjmp ==
    /\ pc = "loop_setjmp"
    /\ restart_after_exception' = "set"
    /\ pc' = "loop_outer"
    /\ UNCHANGED <<snapVars, arm, cpu_events, cycle_count_delta, sched, mem, exiting,
                   fn, faulted, lastReset, exitRequested, debug_on_warn, throttleVars,
                   iterVars>>

\* while (!exiting) { ... }   and the return of emu_loop
emu_loop_outer ==
    /\ pc = "loop_outer"
    /\ IF exiting
       THEN /\ pc' = "idle"
            /\ restart_after_exception' = "stale"
            /\ exitRequested' = FALSE
            /\ iter' = NoIter
       ELSE /\ pc' = "loop_sched"
            /\ iter' = [NoIter EXCEPT !.advances = 0]
            /\ UNCHANGED <<restart_after_exception, exitRequested>>
    /\ steps' = <<>>
    /\ UNCHANGED <<snapVars, arm, cpu_events, cycle_count_delta, sched, mem, exiting,
                   fn, faulted, lastReset, debug_on_warn, throttleVars>>

\* sched_process_pending_events(): the slots whose time has come fire, each
\* calling its callback
emu_loop_sched ==
    /\ pc = "loop_sched"
    /\ iter' = [iter EXCEPT !.advances = @ + 1]
    /\ pc' = IF ThrottleDue THEN "throttle_event" ELSE "loop_sched_done"
    /\ UNCHANGED <<snapVars, arm, cpu_events, cycle_count_delta, sched, mem, exiting, fn,
                   restart_after_exception, faulted, lastReset, exitRequested,
                   debug_on_warn, throttleVars, steps>>

\* the end of sched_process_pending_events(): the scheduler publishes the time
\* to the next event in cycle_count_delta
emu_loop_sched_done ==
    /\ pc = "loop_sched_done"
    /\ cycle_count_delta' \in NextBudgets
    /\ pc' = "loop_inner"
    /\ UNCHANGED <<snapVars, arm, cpu_events, sched, mem, exiting, fn, loopVars>>

\* while (!exiting && cycle_count_delta < 0) { ... }
emu_loop_inner ==
    /\ pc = "loop_inner"
    /\ pc' = IF InnerLoopRuns(exiting, cycle_count_delta) THEN "loop_check_reset"
             ELSE "loop_outer"
    /\ iter' = [iter EXCEPT !.check = [exiting |-> exiting, delta |-> cycle_count_delta,
                                       reset |-> FALSE, made |-> TRUE],
                            !.execs = 0, !.executor = "none", !.thumb = FALSE,
                            !.irq = NoIrq]
    /\ steps' = <<>>
    /\ UNCHANGED <<snapVars, arm, cpu_events, cycle_count_delta, sched, mem, exiting,
                   fn, restart_after_exception, faulted, lastReset, exitRequested,
                   debug_on_warn, throttleVars>>

\* if (cpu_events & EVENT_RESET) { gui_status_printf("Reset"); goto reset; }
emu_loop_check_reset ==
    /\ pc = "loop_check_reset"
    /\ pc' = IF "RESET" \in cpu_events THEN "loop_reset" ELSE "loop_interrupt"
    /\ iter' = [iter EXCEPT !.check.reset = "RESET" \in cpu_events]
    /\ UNCHANGED <<snapVars, arm, cpu_events, cycle_count_delta, sched, mem, exiting,
                   fn, restart_after_exception, faulted, lastReset, exitRequested,
                   debug_on_warn, throttleVars, steps>>

\* if (cpu_events & (EVENT_FIQ | EVENT_IRQ)) { align; skip wait; += 4; cpu_exception }
\* cpu_events &= ~EVENT_WAITING;
emu_loop_interrupt ==
    /\ pc = "loop_interrupt"
    /\ IF cpu_events \cap {"FIQ", "IRQ"} # {}
       THEN /\ arm' = cpu_exception([arm EXCEPT !.reg15 = InterruptPC(arm, cpu_events)],
                                    ExceptionType(cpu_events))
            /\ cpu_events' = EventsAfterException(cpu_events, ExceptionType(cpu_events))
                                \ {"WAITING"}
            /\ iter' = [iter EXCEPT !.irq = [taken |-> TRUE, events |-> cpu_events,
                                             reg15 |-> arm.reg15,
                                             thumb |-> (arm.cpsr_low28 \div 32) % 2 = 1,
                                             pc |-> InterruptPC(arm, cpu_events),
                                             type |-> ExceptionType(cpu_events)]]
       ELSE /\ cpu_events' = cpu_events \ {"WAITING"}
            /\ iter' = [iter EXCEPT !.irq = [NoIrq EXCEPT !.events = cpu_events]]
            /\ UNCHANGED arm
    /\ pc' = "loop_dispatch"
    /\ UNCHANGED <<snapVars, cycle_count_delta, sched, mem, exiting, fn,
                   restart_after_exception, faulted, lastReset, exitRequested,
                   debug_on_warn, throttleVars, steps>>

\* if (arm.cpsr_low28 & 0x20) cpu_thumb_loop(); else cpu_arm_loop();
\* the executor runs instructions: it moves the program counter, may change the
\* status word, may raise events, may write RAM (left cleared or dirty), and
\* uses up cycle budget, during which the time of the throttle slot comes nearer
emu_loop_dispatch ==
    /\ pc = "loop_dispatch"
    /\ \E npc \in ExecutorPCs, ncpsr \in ExecutorCPSRs, ev \in ExecutorEvents :
         /\ arm' = [arm EXCEPT !.reg15 = npc, !.cpsr_low28 = ncpsr]
         /\ cpu_events' = cpu_events \cup ev
    /\ \E d \in (cycle_count_delta + 1)..0 :
         /\ cycle_count_delta' = d
         /\ slot_ticks' = IF sched.proc = "throttle_interval_event"
                          THEN Elapse(slot_ticks, d - cycle_count_delta)
                          ELSE slot_ticks
    /\ \E r \in {0, MaxRam} : mem' = [mem EXCEPT !.ram = r]
    /\ iter' = [iter EXCEPT !.check = NoCheck, !.irq = NoIrq, !.execs = @ + 1,
                            !.executor = Executor(arm),
                            !.thumb = (arm.cpsr_low28 \div 32) % 2 = 1]
    /\ steps' = <<>>
    /\ lastReset' = "none"
    /\ pc' = "loop_inner"
    /\ UNCHANGED <<snapVars, sched, exiting, fn, restart_after_exception, faulted,
                   exitRequested, debug_on_warn, turbo_mode, throttle, fire>>

\* a machine that emu_start has started, before the front end calls emu_loop:
\* cold-booted (the scheduler untouched) or resumed from a snapshot (the throttle
\* slot registered by emu_start, its time restored by sched_resume); run plainly
\* (no debug flag set) or in a debugging session (debug_on_start and debug_on_warn)
InitLoop ==
    /\ path_boot1 = "boot1"
    /\ path_flash = "flash"
    /\ debug_on_start \in BOOLEAN
    /\ debug_on_warn = debug_on_start
    /\ arm \in {ZeroArm, RunningArm}
    /\ cpu_events = IF debug_on_start THEN {"DEBUG_STEP"} ELSE {}
    /\ cycle_count_delta = 0
    /\ sched = IF arm = ZeroArm THEN ZeroSched
               ELSE ThrottleSlot([ZeroSched EXCEPT !.armed = {"THROTTLE", "TIMER"}])
    /\ mem \in {[alloc |-> TRUE, rom |-> "boot1", ram |-> r, ro |-> TRUE] : r \in 0..MaxRam}
    /\ flash = [open |-> TRUE, data |-> 0]
    /\ settings = FlashSettings(flash)
    /\ exiting = FALSE
    /\ debugger_input = "null"
    /\ runtime = {"translate", "addr_cache", "throttle_timer"}
    /\ file = NoFile
    /\ pc = "idle"
    /\ fn = "none"
    /\ loc = NoLoc
    /\ ret = "none"
    /\ calls = <<>>
    /\ ncalls = 0
    /\ suspended = NoSuspend
    /\ before = Observable
    /\ restart_after_exception = "unset"
    /\ faulted = FALSE
    /\ lastReset = "none"
    /\ exitRequested = FALSE
    /\ turbo_mode = FALSE
    /\ throttle = InitialThrottle
    /\ slot_ticks = IF arm = ZeroArm THEN 0 ELSE THROTTLE_TICKS
    /\ fire = NoFire
    /\ steps = <<>>
    /\ iter = NoIter

NextLoop ==
    \/ emu_loop_entry \/ emu_loop_reset \/ emu_loop_prepare \/ emu_loop_setjmp
    \/ emu_loop_outer \/ emu_loop_sched \/ emu_loop_sched_done \/ emu_loop_inner
    \/ emu_loop_check_reset \/ emu_loop_interrupt \/ emu_loop_dispatch
    \/ throttle_interval_event_repeat \/ throttle_interval_event_poll
    \/ error \/ warn
    \/ RequestExit

SpecLoop == InitLoop /\ [][NextLoop]_vars

\* the statements of emu_loop and of the throttle callback: sequential code that
\* goes on as long as every dispatch and scheduler callback returns
RunStep ==
    \/ emu_loop_entry \/ emu_loop_reset \/ emu_loop_prepare \/ emu_loop_setjmp
    \/ emu_loop_outer \/ emu_loop_sched \/ emu_loop_sched_done \/ emu_loop_inner
    \/ emu_loop_check_reset \/ emu_loop_interrupt \/ emu_loop_dispatch
    \/ throttle_interval_event_repeat \/ throttle_interval_event_poll

\* a run in which nobody asks the loop to exit; faults may happen
NextRun == RunStep \/ error

SpecRun == InitLoop /\ [][NextRun]_vars /\ WF_vars(RunStep)

\* ------------------------------------------------------------ throttle firings

\* host time already spent in the running measurement window: 200 ms
MidWindow == 200000

\* the number of intervals that makes the speed exactly 0.7 when the window
\* closes after MidWindow + Window microseconds
BoundaryCount == (7 * (MidWindow + Window)) \div (10 * IntervalMicros)

\* how far around the boundary the interval counts tried reach
CountSpread == 2

\* the statics of throttle_interval_event on a host faster than the emulated
\* machine, part-way through a measurement window: the coming firing brings the
\* count of intervals since the last measurement to just below, exactly, or just
\* above the 0.7 boundary; the speed held is the initial 1.0 or that of a slow
\* window
MidWindowThrottles ==
    {[since |-> k - 1, elapsed |-> MidWindow, speed |-> sp] :
        k \in (BoundaryCount - CountSpread)..(BoundaryCount + CountSpread),
        sp \in {InitialSpeed, Speed(1, Window)}}

\* the scheduler finds the throttle slot due at a later
\* sched_process_pending_events, the interval having elapsed
NextFiring ==
    /\ pc = "loop_sched_done"
    /\ sched.proc = "throttle_interval_event"
    /\ slot_ticks' = Elapse(slot_ticks, CyclesUntil(slot_ticks))
    /\ pc' = "throttle_event"
    /\ UNCHANGED <<snapVars, arm, cpu_events, cycle_count_delta, sched, mem, exiting, fn,
                   restart_after_exception, faulted, lastReset, exitRequested,
                   debug_on_warn, turbo_mode, throttle, fire, iterVars>>

\* bool turbo_mode: switched by the front end while the machine runs
SetTurbo ==
    /\ turbo_mode' = ~turbo_mode
    /\ UNCHANGED <<snapVars, arm, cpu_events, cycle_count_delta, sched, mem, exiting,
                   pc, fn, restart_after_exception, faulted, lastReset, exitRequested,
                   debug_on_warn, throttle, slot_ticks, fire, iterVars>>

\* a running machine inside sched_process_pending_events of emu_loop, the
\* throttle slot due, at the start of a run or part-way through a window
InitThrottle ==
    /\ path_boot1 = "boot1"
    /\ path_flash = "flash"
    /\ debug_on_start = FALSE
    /\ debug_on_warn = FALSE
    /\ arm = RunningArm
    /\ cpu_events = {}
    /\ cycle_count_delta = 0
    /\ sched = ThrottleSlot([ZeroSched EXCEPT !.armed = {"THROTTLE", "TIMER"}])
    /\ mem = [alloc |-> TRUE, rom |-> "boot1", ram |-> 0, ro |-> TRUE]
    /\ flash = [open |-> TRUE, data |-> 0]
    /\ settings = FlashSettings(flash)
    /\ exiting = FALSE
    /\ debugger_input = "null"
    /\ runtime = {"translate", "addr_cache", "throttle_timer"}
    /\ file = NoFile
    /\ pc = "throttle_event"
    /\ fn = "emu_loop"
    /\ loc = NoLoc
    /\ ret = "none"
    /\ calls = <<>>
    /\ ncalls = 0
    /\ suspended = NoSuspend
    /\ before = Observable
    /\ restart_after_exception = "set"
    /\ faulted = FALSE
    /\ lastReset = "none"
    /\ exitRequested = FALSE
    /\ turbo_mode \in BOOLEAN
    /\ throttle \in {InitialThrottle} \cup MidWindowThrottles
    /\ slot_ticks = 0
    /\ fire = NoFire
    /\ steps = <<>>
    /\ iter = [NoIter EXCEPT !.advances = 1]

NextThrottle ==
    \/ throttle_interval_event_repeat
    \/ throttle_interval_event_poll
    \/ NextFiring
    \/ SetTurbo

SpecThrottle == InitThrottle /\ [][NextThrottle]_vars

\* ------------------------------------------------------------ claims: snapshot

Serializers == {"flash_suspend", "cpu_suspend", "sched_suspend", "memory_suspend"}

SubResumes == {"flash_resume", "flash_read_settings", "cpu_resume", "memory_resume",
               "sched_resume"}

PostResumeSteps == {"fopen_boot1", "translate_init", "addr_cache_init",
                    "throttle_timer_on", "gdbstub_init", "rdebug_bind"}

AnySerializerFailed == \E n \in Serializers : Failed(n)

AllSerialized == \A n \in Serializers : Called(n) /\ ~Failed(n)

\* the call has ended: it returned, or the process died in it
Ended == pc \in {"idle", "crashed"}

InResume == fn = "emu_start" /\ loc.snapshot_file # NULL

\* C1: in emu_suspend, once a sub-region serializer has reported failure, the
\* call never stores the magic 0xCAFEBEEF into the image's signature field.
C1_NoSignatureAfterSerializerFailure ==
    (fn = "emu_suspend" /\ AnySerializerFailed) => ~Called("store_sig")

\* the positions of emu_suspend at which not all sub-regions are serialized
SuspendInterruptible == {"suspend_truncate", "suspend_mmap", "suspend_header",
                         "suspend_flash", "suspend_cpu", "suspend_sched",
                         "suspend_memory", "suspend_fail"}

\* C2: at every point of emu_suspend at which not all sub-regions have been
\* serialized, the signature field of the file is not the magic, whatever the
\* file held before the call.
C2_NoMagicWhileIncomplete ==
    (fn = "emu_suspend" /\ pc \in SuspendInterruptible) => file.sig # MAGIC

\* C3: emu_suspend returns false on every failure, and true only when all four
\* sub-regions were serialized and the signature was written.
C3_SuspendResult ==
    (fn = "emu_suspend" /\ pc = "idle") =>
        /\ ret = "true" => (AllSerialized /\ Called("store_sig") /\ file.sig = MAGIC)
        /\ AnySerializerFailed => ret = "false"

\* C4: emu_start given a snapshot whose signature is not the magic returns false
\* and leaves the observable emulator state (event mask, scheduler slots, exiting,
\* memory, storage, debugger input) as it was before the call.
C4_BadSignatureNoMutation ==
    (InResume /\ pc = "idle" /\ Failed("read_sig")) =>
        (ret = "false" /\ Observable = before)

\* C5: emu_start given a snapshot file shorter than the header returns false,
\* invokes no sub-resume step and does not read the signature.
C5_ShortFileRejected ==
    (InResume /\ Ended /\ loc.map # "none" /\ SizeTooSmall(loc.size)) =>
        /\ ret = "false"
        /\ \A n \in SubResumes : ~Called(n)
        /\ ~Called("read_sig")

\* C6: emu_start returns true for a snapshot only if the file's size equals the
\* header size plus the sizes of its sub-regions.
C6_SizeMismatchRejected ==
    (InResume /\ pc = "idle" /\ file.size # ImageSize(file)) => ret = "false"

\* the sub-resume steps in the order emu_start runs them
ResumeOrder == <<"flash_resume", "flash_read_settings", "cpu_resume", "memory_resume",
                 "sched_resume">>

\* C7: once a sub-resume step has failed in emu_start, no later sub-resume step
\* is invoked, emu_cleanup is invoked, emu_start returns false, and no
\* post-resume start-up step is performed.
C7_ResumeFailureAborts ==
    (InResume /\ Ended /\ \E n \in SubResumes : Failed(n)) =>
        /\ \A i \in 1..Len(ResumeOrder), j \in 1..Len(ResumeOrder) :
             (i < j /\ Failed(ResumeOrder[i])) => ~Called(ResumeOrder[j])
        /\ Called("emu_cleanup")
        /\ ret = "false"
        /\ \A n \in PostResumeSteps : ~Called(n)

\* C8: after a complete emu_suspend, an emu_start with that snapshot that returns
\* true leaves CPU registers, armed slots and memory (boot ROM and RAM) as they
\* were at the moment of suspend, whatever path_boot1 is at resume time.
C8_RoundTrip ==
    (InResume /\ pc = "idle" /\ ret = "true" /\ suspended.valid) =>
        /\ arm = suspended.arm
        /\ sched.armed = suspended.armed
        /\ mem.rom = suspended.rom
        /\ mem.ram = suspended.ram

\* C12: emu_cleanup called repeatedly releases each resource at most once: the
\* debugger input stream is never closed a second time.
C12_StreamClosedOnce ==
    ~Failed("fclose")

\* C14: during resume, storage is resumed before the settings are read from it,
\* and memory is resumed before the CPU resume and before the scheduler resume.
C14_ResumeDependencyOrder ==
    InResume =>
        /\ Called("flash_read_settings") => Called("flash_resume")
        /\ Called("cpu_resume") => Called("memory_resume")
        /\ Called("sched_resume") => Called("memory_resume")

\* the steps of emu_start that begin a run
RunSteps == {"translate_init", "throttle_timer_on", "gdbstub_init", "rdebug_bind"}

\* the cold-boot failures: storage path unset, storage image not opened, memory
\* initialisation failed
ColdBootFailure ==
    /\ loc.snapshot_file = NULL
    /\ \/ path_flash = NULL /\ pc # "start_flash_open"
       \/ Failed("flash_open")
       \/ Failed("memory_initialize")

\* C15: emu_start returns false when the storage path is unset, the storage
\* image cannot be opened, memory initialisation fails or the configured boot
\* ROM cannot be opened; and whenever it returns false, that call has not
\* initialised the translation backend, enabled the throttle timer or opened a
\* debug listener.
C15_StartFailureNoPartialRun ==
    fn = "emu_start" =>
        /\ (ColdBootFailure \/ Failed("fopen_boot1")) => (pc = "idle" /\ ret = "false")
        /\ (pc = "idle" /\ ret = "false") => \A n \in RunSteps : ~Called(n)

\* a cold boot got as far as the boot ROM, which could not be opened, and
\* emu_start has returned false
C15_Witness ==
    /\ fn = "emu_start" /\ pc = "idle" /\ ret = "false"
    /\ loc.snapshot_file = NULL
    /\ Called("memory_initialize")
    /\ Failed("fopen_boot1")

\* C20: on every path through emu_suspend after the file was opened, the
\* descriptor is closed exactly once, the mapping (if created) is unmapped exactly
\* once, and the image is never written after it was unmapped.
C20_SuspendReleasesOnce ==
    /\ (fn = "emu_suspend" /\ pc = "idle" /\ loc.fd # "none") =>
           /\ loc.closes = 1
           /\ loc.map # "none" => loc.unmaps = 1
    /\ fn = "emu_suspend" => ~Failed("store_sig")

\* ------------------------------------------------------------ claims: loop

\* C9: after every reset of emu_loop (requested by the caller, triggered by the
\* pending-reset bit, or following a fault), when the first instruction is about
\* to be dispatched the reset, FIQ, IRQ and waiting bits are clear, the program
\* counter is 0, the control register is 0x00050078 and the status word is
\* supervisor mode with 0xC0 set.
C9_PowerOnStateAtDispatch ==
    (pc = "loop_dispatch" /\ lastReset # "none") =>
        /\ cpu_events \cap {"RESET", "FIQ", "IRQ", "WAITING"} = {}
        /\ arm.reg15 = 0
        /\ arm.control = CONTROL_RESET
        /\ arm.cpsr_low28 = MODE_SVC + CPSR_IF

\* a fault-triggered reset has been performed and dispatch is about to resume,
\* with the debug-step bit kept
C9_Witness ==
    /\ pc = "loop_dispatch"
    /\ lastReset = "fault"
    /\ "DEBUG_STEP" \in cpu_events

\* C10: from error() until the reset it forces, emu_loop neither delivers an
\* interrupt nor dispatches an instruction; control stays in emu_loop, which
\* returns before the reset only when exiting is set.
C10_NoDispatchBeforeReset ==
    faulted =>
        /\ pc \notin {"loop_interrupt", "loop_dispatch", "crashed"}
        /\ fn = "emu_loop"
        /\ pc = "idle" => exiting

\* a fault has landed at the checkpoint and the loop is at its reset check with
\* the pending-reset bit set
C10_Witness ==
    /\ faulted
    /\ pc = "loop_check_reset"
    /\ "RESET" \in cpu_events

\* C11: an exit request is never lost: once the exiting flag has been set by the
\* front end, while or before emu_loop runs (during a reset sequence and just
\* before the loop is entered included), the flag stays set until emu_loop has
\* observed it at a poll point and returned.
C11_ExitRequestKept == exitRequested => exiting

\* C16: on an unrecoverable fault the steps of error() are, in this order: the
\* report, the debugger break, setting the pending-reset bit, the non-local
\* transfer to the checkpoint; the debugger break is among them only when the
\* debug-on-warn policy is enabled.
C16_FaultStepsFollowPolicy ==
    (faulted /\ steps # <<>>) =>
        steps = <<"report">> \o (IF debug_on_warn THEN <<"debugger">> ELSE <<>>)
                    \o <<"set_reset", "longjmp">>

\* C17: in an inner iteration that reaches the dispatch, an exception is entered
\* exactly when FIQ or IRQ was pending; the program counter handed to it is the
\* old one with its low bit (Thumb state) or low two bits (ARM state) cleared,
\* plus 4, plus 4 more exactly when the waiting bit was set; the exception is
\* FIQ whenever FIQ was pending and IRQ otherwise; and the waiting bit is clear
\* when the instruction is dispatched.
C17_InterruptDelivery ==
    pc = "loop_dispatch" =>
        LET q == iter.irq
            aligned == IF q.thumb THEN 2 * (q.reg15 \div 2) ELSE 4 * (q.reg15 \div 4)
            skip == IF "WAITING" \in q.events THEN 4 ELSE 0
        IN  /\ q.taken <=> (q.events \cap {"FIQ", "IRQ"} # {})
            /\ q.taken =>
                   /\ q.pc = aligned + 4 + skip
                   /\ q.type = "EX_FIQ" <=> "FIQ" \in q.events
                   /\ q.type = "EX_IRQ" <=> "FIQ" \notin q.events
            /\ "WAITING" \notin cpu_events

\* an IRQ has been delivered in Thumb state to a CPU that was waiting for it,
\* with an odd program counter: 7 is aligned to 6 and advanced twice
C17_Witness ==
    /\ pc = "loop_dispatch"
    /\ iter.irq.taken
    /\ iter.irq.thumb
    /\ iter.irq.reg15 = 7
    /\ iter.irq.events \cap {"FIQ", "IRQ", "WAITING"} = {"IRQ", "WAITING"}
    /\ iter.irq.pc = 14
    /\ iter.irq.type = "EX_IRQ"

\* C18: interrupt delivery and instruction dispatch happen only after an inner
\* loop check that saw the exiting flag clear and the cycle counter negative and
\* a reset check that saw the pending-reset bit clear; an inner iteration makes
\* exactly one executor call, the Thumb executor exactly when bit 0x20 of the
\* status word is set; and within an outer iteration the scheduler's pending
\* events have been processed exactly once before any dispatch.
C18_DispatchDiscipline ==
    /\ pc \in {"loop_interrupt", "loop_dispatch"} =>
           /\ iter.check.made
           /\ ~iter.check.exiting
           /\ iter.check.delta < 0
           /\ ~iter.check.reset
           /\ iter.execs = 0
           /\ iter.advances = 1
    /\ (pc = "loop_inner" /\ iter.execs # 0) =>
           /\ iter.execs = 1
           /\ iter.executor = "cpu_thumb_loop" <=> iter.thumb
           /\ iter.executor = "cpu_arm_loop" <=> ~iter.thumb
           /\ iter.advances = 1

\* an inner iteration has just dispatched through the Thumb executor and budget
\* is left for another iteration of the same outer iteration
C18_Witness ==
    /\ pc = "loop_inner"
    /\ iter.execs = 1
    /\ iter.executor = "cpu_thumb_loop"
    /\ iter.advances = 1
    /\ cycle_count_delta < 0
    /\ ~exiting

\* the throttle slot is registered: 27 MHz clock, throttle callback
ThrottleRegistered ==
    sched.clock = "CLOCK_27M" /\ sched.proc = "throttle_interval_event"

C13_ThrottleWaitRule ==
    fire.fired =>
        /\ fire.waited <=> (~fire.turbo /\ 10 * throttle.speed.num > 7 * throttle.speed.den)
        /\ fire.turbo => ~fire.waited

\* a firing in turbo mode that has just measured a speed above 0.7 (50 intervals
\* in 700 ms) and did not wait
C13_Witness ==
    /\ fire.fired
    /\ fire.turbo
    /\ ~fire.waited
    /\ throttle.since = 0
    /\ throttle.speed = Speed(BoundaryCount + 1, MidWindow + Window)

====
